---- MODULE Spec2Model ----
(***************************************************************************)
(* Static HTTP responder of wsServer (src/src/statics.h): the active asset *)
(* table, the lazy root-alias resolver, the request parser, the            *)
(* conditional-GET negotiator, the response assembly and do_handshake.     *)
(*                                                                         *)
(* C strings are sequences of one-character strings; a pointer into a      *)
(* string is a 1-based index and 0 is the null pointer.                    *)
(***************************************************************************)
EXTENDS Integers, Sequences, FiniteSets, TLC

(***************************************************************************)
(* libc string primitives                                                  *)
(***************************************************************************)

\* A string literal as a C string (sequence of characters).
Chars(s) == [i \in 1..Len(s) |-> SubSeq(s, i, i)]

UpperChars == Chars("ABCDEFGHIJKLMNOPQRSTUVWXYZ")
LowerChars == Chars("abcdefghijklmnopqrstuvwxyz")
LowerOf == [c \in {UpperChars[i] : i \in 1..26} |->
              LowerChars[CHOOSE i \in 1..26 : UpperChars[i] = c]]

tolower(c) == IF c \in DOMAIN LowerOf THEN LowerOf[c] ELSE c

ToLowerStr(s) == [k \in 1..Len(s) |-> tolower(s[k])]

\* The least element of a non-empty set of indices, 0 for the empty set.
FirstOf(S) == IF S = {} THEN 0 ELSE CHOOSE i \in S : \A j \in S : i <= j

\* strchr(s + from - 1, c): index of the first c at or after from, 0 if none.
strchr(s, c, from) == FirstOf({i \in from..Len(s) : s[i] = c})

\* Does needle occur in hay at position i?
MatchAt(hay, needle, i) ==
    /\ i + Len(needle) - 1 <= Len(hay)
    /\ \A k \in 1..Len(needle) : hay[i + k - 1] = needle[k]

\* strstr(hay + from - 1, needle): index of the first occurrence, 0 if none.
strstr(hay, needle, from) ==
    FirstOf({i \in from..(Len(hay) + 1) : MatchAt(hay, needle, i)})

\* strcasestr(hay + from - 1, needle): as strstr, ignoring case.
strcasestr(hay, needle, from) ==
    strstr(ToLowerStr(hay), ToLowerStr(needle), from)

\* strcmp(a, b) == 0
StrEq(a, b) == a = b


\* The null char pointer (no C string has a multi-character element).
NullStr == <<"NULL">>

(***************************************************************************)
(* Helpers of statics.h                                                    *)
(***************************************************************************)

\* strstricase_local(haystack, needle): index of the first position where
\* needle matches ignoring case, 0 for NULL. The outer loop visits the
\* positions h in order; the inner loop returns NULL when the haystack
\* ends inside a comparison, which no later position can then survive.
strstricase_local(haystack, needle) ==
    IF Len(needle) = 0 THEN 1
    ELSE FirstOf({h \in 1..Len(haystack) :
                    /\ h + Len(needle) - 1 <= Len(haystack)
                    /\ \A i \in 1..Len(needle) :
                         tolower(haystack[h + i - 1]) = tolower(needle[i])})

WS_HS_REQ == Chars("Sec-WebSocket-Key")

\* looks_like_ws_upgrade with a case-sensitive search.
looks_like_ws_upgrade_exact(req) == strstr(req, WS_HS_REQ, 1) # 0

looks_like_ws_upgrade(req) == strstricase_local(req, WS_HS_REQ) # 0

http_reason_phrase(code) ==
    CASE code = 200 -> "OK"
      [] code = 400 -> "Bad Request"
      [] code = 404 -> "Not Found"
      [] code = 405 -> "Method Not Allowed"
      [] OTHER      -> "OK"

\* ptr = 0 is NULL; otherwise ptr indexes the first content character and
\* size is *foundSize.
get_content_between(buffer, start_term, end_term) ==
    LET start_ptr == strcasestr(buffer, start_term, 1)
    IN IF start_ptr = 0 THEN [ptr |-> 0, size |-> 0]
       ELSE LET content_start == start_ptr + Len(start_term)
                end_ptr == strcasestr(buffer, end_term, content_start)
            IN IF end_ptr = 0 THEN [ptr |-> 0, size |-> 0]
               ELSE [ptr |-> content_start, size |-> end_ptr - content_start]

ends_with(str, suffix) ==
    IF str = NullStr \/ suffix = NullStr THEN FALSE
    ELSE IF Len(suffix) > Len(str) THEN FALSE
    ELSE SubSeq(str, Len(str) - Len(suffix) + 1, Len(str)) = suffix

\* rc = -1 on failure; method, path and headers are the three out-pointers,
\* read as the strings they point to after the two separators are
\* overwritten with NUL.
http_parse_request_line(buf) ==
    LET sp1 == strchr(buf, " ", 1)
        sp2 == IF sp1 = 0 THEN 0 ELSE strchr(buf, " ", sp1 + 1)
        sp3 == IF sp2 = 0 THEN 0 ELSE strchr(buf, "\n", sp2 + 1)
        Fail == [rc |-> -1, method |-> NullStr, path |-> NullStr, headers |-> NullStr]
    IN IF sp1 = 0 THEN Fail
       ELSE IF sp2 = 0 THEN Fail
       ELSE IF sp3 = 0 THEN Fail
       ELSE [rc |-> 0,
             method  |-> SubSeq(buf, 1, sp1 - 1),
             path    |-> SubSeq(buf, sp1 + 1, sp2 - 1),
             headers |-> SubSeq(buf, sp3 + 1, Len(buf))]


(***************************************************************************)
(* Asset tables                                                            *)
(***************************************************************************)

CRLF == Chars("\r\n")

\* The header string of a build without GZIP: no Content-Encoding line.
CustomHeaderPlain(hexhash, contentType) ==
    Chars("Etag: \"") \o hexhash \o Chars("\"") \o CRLF
      \o Chars("Content-Type: ") \o contentType \o CRLF

\* The header string dir2statics emits for one file (GZIP build): the
\* Etag line with the 40 hex characters of the digest, the
\* Content-Encoding line and the Content-Type line.
CustomHeader(hexhash, contentType) ==
    Chars("Etag: \"") \o hexhash \o Chars("\"") \o CRLF
      \o Chars("Content-Encoding: gzip") \o CRLF
      \o Chars("Content-Type: ") \o contentType \o CRLF

\* Validators (40 upper-case hex characters) of the files of the tables.
EtagStyle == Chars("5BAA61E4C9B93F3F0682250B6CF8331B7EE68FD8")
EtagAbout == Chars("2FD4E1C67A2D28FCED849EE1BB76E7391B93EB12")
EtagIndex == Chars("DA39A3EE5E6B4B0D3255BFEF95601890AFD80709")
EtagBlog  == Chars("84A516841BA77A5B4648DE2CD0DFCB30EA46DBB4")

\* One emitted file: url_prefix "/" + name, header string, gzip payload.
Asset(name, hexhash, contentType, gz) ==
    [url         |-> Chars("/") \o Chars(name),
     contentType |-> CustomHeader(hexhash, Chars(contentType)),
     content     |-> Chars(gz),
     size        |-> Len(gz)]

StyleCss  == Asset("style.css", EtagStyle, "text/css; charset=utf-8", "<gz:style>")
AboutHtml == Asset("about.html", EtagAbout, "text/html; charset=utf-8", "<gz:about.>")
IndexHtml == Asset("index.html", EtagIndex, "text/html; charset=utf-8", "<gz:index..>")
BlogHtml  == Asset("blog.html", EtagBlog, "text/html; charset=utf-8", "<gz:blog...!>")

\* A ws_static_asset_set_t built from a sequence of entries.
AssetSet(entries) ==
    [count       |-> Len(entries),
     urls        |-> [i \in 1..Len(entries) |-> entries[i].url],
     contentType |-> [i \in 1..Len(entries) |-> entries[i].contentType],
     content     |-> [i \in 1..Len(entries) |-> entries[i].content],
     sizes       |-> [i \in 1..Len(entries) |-> entries[i].size]]

\* __DATE__ " " __TIME__ of one build.
BuildStamp == Chars("Jan  1 2025 00:00:00")

default_static_html_text ==
    Chars("<html><head><title>WS STATIC OK</title></head><body>Success<br>Built: ")
    \o BuildStamp \o Chars("</body></html>")

\* The built-in placeholder table.
default_set ==
    AssetSet(<< [url         |-> Chars("/"),
                 contentType |-> Chars("text/html; charset=utf-8"),
                 content     |-> default_static_html_text,
                 size        |-> Len(default_static_html_text)] >>)

\* A hand-written entry for the url "/" (the compiler never emits one).
RootEntry ==
    [url         |-> Chars("/"),
     contentType |-> Chars("text/html; charset=utf-8"),
     content     |-> Chars("<root>"),
     size        |-> 6]

\* The tables a host may register, by address; address 0 is NULL and
\* address 1 is &default_set.
TableAt ==
    << default_set,
       AssetSet(<<AboutHtml, StyleCss>>),
       AssetSet(<<AboutHtml, IndexHtml, StyleCss>>),
       AssetSet(<<AboutHtml, BlogHtml, StyleCss>>),
       AssetSet(<<StyleCss>>),
       AssetSet(<<RootEntry, IndexHtml>>),
       AssetSet(<<IndexHtml, RootEntry>>) >>

NULL == 0
DefaultSetPtr == 1
TablePtrs == DOMAIN TableAt


(***************************************************************************)
(* Response assembly                                                       *)
(***************************************************************************)

Digits == Chars("0123456789")

\* printf("%d") of a non-negative number.
RECURSIVE DecStr(_)
DecStr(n) == IF n < 10 THEN <<Digits[n + 1]>>
             ELSE DecStr(n \div 10) \o <<Digits[(n % 10) + 1]>>

\* snprintf(dst, size, "%s", s) leaves at most size - 1 characters.
Truncate(s, size) == IF Len(s) > size - 1 THEN SubSeq(s, 1, size - 1) ELSE s

HdrSize == 512
CustomHdrsSize == 512
AliasSize == 256
TmpSize == 512

\* The header lines built from the entry's contentType field.
customHdrsOf(content_type) ==
    LET ct == IF content_type = NullStr THEN Chars("text/plain; charset=utf-8")
              ELSE content_type
        full ==
          IF ends_with(ct, CRLF)
          THEN IF get_content_between(ct, Chars("etag:"), Chars("\r")).ptr # 0
               THEN ct
               ELSE IF get_content_between(ct, Chars("Cache-Control:"), Chars("\r")).ptr # 0
                    THEN ct
                    ELSE Chars("Cache-Control: no-cache\r\n") \o ct
          ELSE Chars("Cache-Control: no-cache\r\nContent-Type: ") \o ct \o CRLF
    IN Truncate(full, CustomHdrsSize)

\* The status line and header block http_send_response formats.
ResponseHdr(code, content_type, body_len) ==
    Chars("HTTP/1.1 ") \o DecStr(code) \o Chars(" ")
      \o Chars(http_reason_phrase(code)) \o CRLF
      \o Chars("Connection: close\r\n")
      \o customHdrsOf(content_type)
      \o Chars("Content-Length: ") \o DecStr(body_len) \o CRLF
      \o CRLF

\* http_send_response with Content-Length taken from the bytes it sends:
\* 0 whenever body is NULL.
http_send_response_sent_length(code, content_type, body, body_len, send) ==
    LET hdr == ResponseHdr(code, content_type, IF body = NullStr THEN 0 ELSE body_len)
        Call(h, b, rc) == [code |-> code, hdr |-> h, body |-> b, rc |-> rc]
    IN IF Len(hdr) >= HdrSize THEN Call(<<>>, <<>>, -1)
       ELSE IF send = "hdr_fails" THEN Call(<<>>, <<>>, -1)
       ELSE IF body # NullStr /\ body_len # 0
            THEN IF send = "body_fails" THEN Call(hdr, <<>>, -1)
                 ELSE Call(hdr, SubSeq(body, 1, body_len), 0)
            ELSE Call(hdr, <<>>, 0)

\* One call of http_send_response. send is what the two SENDs do: "ok",
\* "hdr_fails" or "body_fails". The record holds the status code, what
\* went onto the wire (hdr, body) and the return value.
http_send_response(code, content_type, body, body_len, send) ==
    LET hdr == ResponseHdr(code, content_type, body_len)
        hdr_len == Len(hdr)
        Call(h, b, rc) == [code |-> code, hdr |-> h, body |-> b, rc |-> rc]
    IN IF hdr_len >= HdrSize THEN Call(<<>>, <<>>, -1)
       ELSE IF send = "hdr_fails" THEN Call(<<>>, <<>>, -1)
       ELSE IF body # NullStr /\ body_len # 0
            THEN IF send = "body_fails" THEN Call(hdr, <<>>, -1)
                 ELSE Call(hdr, SubSeq(body, 1, body_len), 0)
            ELSE Call(hdr, <<>>, 0)

SendOutcomes == {"ok", "hdr_fails", "body_fails"}

(***************************************************************************)
(* Root alias and lookup (the parts that touch no shared variable)         *)
(***************************************************************************)

index_html == Chars("/index.html")
dot_html == Chars(".html")
classic_root == Chars("/")

\* The loop and the html_count test of find_root_alias over table t: the
\* url it writes to static_root_alias, or NullStr when it writes nothing.
RECURSIVE ScanFrom(_, _, _, _)
ScanFrom(t, i, gotIt, html_count) ==
    IF i > t.count
    THEN IF html_count = 1 THEN t.urls[gotIt] ELSE NullStr
    ELSE IF t.urls[i] # NullStr
         THEN IF t.urls[i] = index_html \/ t.urls[i] = classic_root
              THEN t.urls[i]
              ELSE IF ends_with(t.urls[i], dot_html)
                   THEN ScanFrom(t, i + 1, i, html_count + 1)
                   ELSE ScanFrom(t, i + 1, gotIt, html_count)
         ELSE ScanFrom(t, i + 1, gotIt, html_count)

\* find_root_alias with the final test html_count >= 1.
RECURSIVE ScanFromAny(_, _, _, _)
ScanFromAny(t, i, gotIt, html_count) ==
    IF i > t.count
    THEN IF html_count >= 1 THEN t.urls[gotIt] ELSE NullStr
    ELSE IF t.urls[i] # NullStr
         THEN IF t.urls[i] = index_html \/ t.urls[i] = classic_root
              THEN t.urls[i]
              ELSE IF ends_with(t.urls[i], dot_html)
                   THEN ScanFromAny(t, i + 1, i, html_count + 1)
                   ELSE ScanFromAny(t, i + 1, gotIt, html_count)
         ELSE ScanFromAny(t, i + 1, gotIt, html_count)

ScanTableAnyHtml(t) == ScanFromAny(t, 1, 1, 0)

ScanTable(t) == ScanFrom(t, 1, 1, 0)

\* Lines 265-275 of static_find_path: the lookup key for path, given the
\* value read from static_root_alias.
LookupKey(path, alias) ==
    LET p0 == IF path = NullStr \/ Len(path) = 0 THEN Chars("/") ELSE path
        p1 == IF p0 = Chars("/") THEN alias ELSE p0
        q  == strchr(p1, "?", 1)
        n  == IF q # 0 THEN q - 1 ELSE Len(p1)
        n1 == IF n >= TmpSize THEN TmpSize - 1 ELSE n
    IN SubSeq(p1, 1, n1)

\* Lines 280-284: the index (0-based, as in the code) of the first url
\* equal to tmp, or -1.
RECURSIVE FindFrom(_, _, _)
FindFrom(t, tmp, i) ==
    IF i > t.count THEN -1
    ELSE IF t.urls[i] # NullStr /\ t.urls[i] = tmp THEN i - 1
    ELSE FindFrom(t, tmp, i + 1)

FindInTable(t, tmp) == FindFrom(t, tmp, 1)

\* Lines 324-336: does the negotiator answer 304 for an entry with header
\* string custom and a request with header block headers?
EtagSize == 40
MaxGap == 5

NotModified(custom, headers) ==
    LET etag == get_content_between(custom, Chars("etag: \""), Chars("\""))
    IN /\ etag.ptr # 0
       /\ etag.size = EtagSize
       /\ LET findEtag == SubSeq(custom, etag.ptr, etag.ptr + EtagSize - 1)
              ifnonematch == get_content_between(headers, Chars("if-none-match:"), findEtag)
          IN ifnonematch.ptr # 0 /\ ifnonematch.size < MaxGap


(***************************************************************************)
(* Requests a client may send                                              *)
(***************************************************************************)

Quoted(e) == Chars("\"") \o e \o Chars("\"")

IfNoneMatch(value) == Chars("If-None-Match: ") \o value \o CRLF

NoHeaders == <<>>
HostHeader == Chars("Host: a b\r\n")
MatchStyle == Chars("IF-none-MATCH: ") \o Quoted(EtagStyle) \o CRLF
MatchAbout == IfNoneMatch(Quoted(EtagAbout))
WeakStyle == IfNoneMatch(Chars("W/") \o Quoted(EtagStyle))
ListStyle == IfNoneMatch(Quoted(EtagBlog) \o Chars(", ") \o Quoted(EtagStyle))
TruncatedStyle == IfNoneMatch(Quoted(SubSeq(EtagStyle, 1, EtagSize - 1)))
DifferentStyle == IfNoneMatch(Quoted(EtagBlog))
LowerStyle == IfNoneMatch(Quoted(ToLowerStr(EtagStyle)))
NoteStyle == Chars("X-Note: if-none-match:") \o EtagStyle \o CRLF
KeyHeader == Chars("Sec-WebSocket-Key: dGhlIHNhbXBsZQ==\r\n")
LowerKeyHeader == Chars("sec-websocket-key: dGhlIHNhbXBsZQ==\r\n")

\* A request buffer: request line, header lines, and the blank line when
\* the request is complete.
Request(line, headers, complete) ==
    Chars(line) \o CRLF \o headers \o (IF complete THEN CRLF ELSE <<>>)

ConditionalRequests ==
    { Request(line, hs, TRUE) :
        line \in {"GET /style.css HTTP/1.1", "HEAD /style.css HTTP/1.1"},
        hs \in {NoHeaders, MatchStyle, WeakStyle, ListStyle, TruncatedStyle,
                DifferentStyle, LowerStyle, NoteStyle} }

PlainRequests ==
    { Request(line, NoHeaders, TRUE) :
        line \in {"GET / HTTP/1.1", "HEAD / HTTP/1.1", "GET /about.html HTTP/1.1",
                  "GET /index.html HTTP/1.1", "GET /nope HTTP/1.1",
                  "POST /style.css HTTP/1.1", "POST /nope HTTP/1.1",
                  "GET /style.css?v=1 HTTP/1.1", "GET /?v=1 HTTP/1.1"} }
    \cup { Request(line, MatchAbout, TRUE) :
             line \in {"GET / HTTP/1.1", "HEAD / HTTP/1.1"} }

MalformedRequests ==
    { Request(line, hs, TRUE) :
        line \in {"GET", "GET /style.css", "GET /style.css?", "PUT"},
        hs \in {NoHeaders, HostHeader} }
    \cup { Request("GET /style.css HTTP/1.1", NoHeaders, FALSE) }

UpgradeRequests ==
    { Request("GET /chat HTTP/1.1", KeyHeader, TRUE),
      Request("GET /style.css HTTP/1.1", LowerKeyHeader, TRUE) }

\* Requests of the one-connection-at-a-time specification.
SeqRequests ==
    ConditionalRequests \cup PlainRequests \cup MalformedRequests \cup UpgradeRequests

\* Requests of the concurrent specification.
ConcRequests ==
    { Request("GET / HTTP/1.1", NoHeaders, TRUE),
      Request("GET /style.css HTTP/1.1", NoHeaders, TRUE),
      Request("GET /chat HTTP/1.1", KeyHeader, TRUE) }

\* Tables the host registers in each specification.
SeqTables == {NULL} \cup TablePtrs
ConcTables == {1, 2}

(***************************************************************************)
(* State                                                                   *)
(***************************************************************************)

NumHandlers == 2
Handlers == 1..NumHandlers

VARIABLES
    g_assets,            \* the active table (address)
    static_root_alias,   \* char static_root_alias[256]
    found_root_alias,    \* bool
    scans,               \* executions of the scan of find_root_alias so far
    resolved,            \* a call of find_root_alias that set the flag has returned
    resolvedOn,          \* the table that call scanned, NULL if it scanned none
    pc,                  \* per connection handler: the line it is at
    frm,                 \* wfd->frm, the receive buffer
    a,                   \* serve_static_http's a (line 315)
    hit,                 \* the url find_root_alias is about to write
    tmp,                 \* static_find_path's tmp
    idx,                 \* serve_static_http's idx
    sent,                \* the calls of http_send_response on this connection
    served,              \* serve_static_http was called on this connection
    ret,                 \* do_handshake's return value, "none" while it runs
    cstate,              \* the client state
    onopen               \* the onopen callback was invoked

globals == <<g_assets, static_root_alias, found_root_alias>>
ghosts == <<scans, resolved, resolvedOn>>
locals == <<frm, a, hit, tmp, idx>>
conn == <<sent, served, ret, cstate, onopen>>
vars == <<globals, ghosts, pc, locals, conn>>

NoIdx == -1

\* The state of dir2statics: each run of the compiler has its own copy of
\* main's variables, the runs share the input directory and the url prefix.
NumRuns == 2
Runs == 1..NumRuns

VARIABLES
    dir,                 \* the input directory tree: a set of entries
    url_prefix,          \* argv[3]
    cpc,                 \* per run: where main is
    todo,                \* entries readdir has not returned yet
    names,               \* names[0..count-1]
    cHdr,                \* the malloc'ed array of header strings
    ci,                  \* the index i of the loop of lines 352-402
    emitted,             \* what was written to the output header (out)
    report,              \* names reported on stderr
    gzfailed,            \* names whose compression failed
    status,              \* exit status, "none" while main runs
    resp                 \* a response served from an emitted table

\* The hash of one file in main of dir2statics: the fields hexhash and
\* hash of the local struct CustomHeader, and the two pointers of the loop.
VARIABLES
    hashed,              \* the file contents given to SHA1Input, and their digest
    hexhashAndHash,      \* CustomHeader.hexhash[20] followed by CustomHeader.hash[20]
    hexOut,              \* char *hexOut, as an offset from hexhash[0]
    decIn,               \* unsigned char *decIn, as an offset from hexhash[0]
    hpc,                 \* where the hashing of the file is
    validator            \* the characters between the quotes of the string in cHdr[i]

hvars == <<hashed, hexhashAndHash, hexOut, decIn, hpc, validator>>

cvars == <<dir, url_prefix, cpc, todo, names, cHdr, ci, emitted, report, gzfailed, status, resp,
           hvars>>

\* Nothing emitted yet.
NoOutput ==
    [static_count |-> 0, static_urls |-> <<>>, arrays |-> <<>>,
     static_contentType |-> <<>>, static_content |-> <<>>,
     static_content_size |-> <<>>]

\* No run of the compiler has started.
NotStarted ==
    /\ cpc = [r \in Runs |-> "start"]
    /\ todo = [r \in Runs |-> {}]
    /\ names = [r \in Runs |-> <<>>]
    /\ cHdr = [r \in Runs |-> <<>>]
    /\ ci = [r \in Runs |-> 0]
    /\ emitted = [r \in Runs |-> NoOutput]
    /\ report = [r \in Runs |-> {}]
    /\ gzfailed = [r \in Runs |-> {}]
    /\ status = [r \in Runs |-> "none"]
    /\ resp = <<>>

\* The server's state after its globals are initialised.
ServerInit ==
    /\ g_assets = DefaultSetPtr
    /\ static_root_alias = index_html
    /\ found_root_alias = FALSE
    /\ scans = 0
    /\ resolved = FALSE
    /\ resolvedOn = NULL
    /\ pc = [h \in Handlers |-> "idle"]
    /\ frm = [h \in Handlers |-> <<>>]
    /\ a = [h \in Handlers |-> NULL]
    /\ hit = [h \in Handlers |-> NullStr]
    /\ tmp = [h \in Handlers |-> <<>>]
    /\ idx = [h \in Handlers |-> NoIdx]
    /\ sent = [h \in Handlers |-> <<>>]
    /\ served = [h \in Handlers |-> FALSE]
    /\ ret = [h \in Handlers |-> "none"]
    /\ cstate = [h \in Handlers |-> "CONNECTING"]
    /\ onopen = [h \in Handlers |-> FALSE]

\* The server starts; the compiler is not part of the running server.
\* No file is being hashed.
NotHashing ==
    /\ hashed = <<>>
    /\ hexhashAndHash = <<>>
    /\ hexOut = 0
    /\ decIn = 0
    /\ hpc = "idle"
    /\ validator = <<>>

Init ==
    /\ ServerInit
    /\ dir = {}
    /\ url_prefix = <<>>
    /\ NotStarted
    /\ NotHashing


(***************************************************************************)
(* Operations                                                              *)
(***************************************************************************)

\* ws_set_static_assets(set)
ws_set_static_assets(set) ==
    /\ g_assets' = set
    /\ UNCHANGED <<static_root_alias, found_root_alias, ghosts, pc, locals, conn, cvars>>

\* ws_get_static_assets without the NULL test.
ws_get_static_assets_raw == g_assets

\* The value ws_get_static_assets returns; when g_assets is NULL it also
\* stores &default_set in g_assets.
ws_get_static_assets == IF g_assets # NULL THEN g_assets ELSE DefaultSetPtr

Terminator == Chars("\r\n\r\n")
BadRequestMsg == Chars("Bad Request\n")
NotAllowedMsg == Chars("Method Not Allowed\n")
NotFoundMsg == Chars("Not Found\n")
BadHandshakeMsg == Chars("Bad WebSocket handshake\n")

\* An error response with a plain-text body, as lines 292-293 and alike.
ErrorResponse(code, msg, send) == http_send_response(code, NullStr, msg, Len(msg), send)

\* do_handshake returns rv on connection h after the calls in calls.
Return(h, calls, rv) ==
    /\ sent' = [sent EXCEPT ![h] = sent[h] \o calls]
    /\ ret' = [ret EXCEPT ![h] = rv]
    /\ pc' = [pc EXCEPT ![h] = "done"]
    /\ UNCHANGED cvars

Goto(h, line) == pc' = [pc EXCEPT ![h] = line] /\ UNCHANGED cvars

\* do_handshake, line 355: RECV. NullStr stands for n < 0.
Recv(h, requests) ==
    /\ pc[h] = "idle"
    /\ \E buf \in requests \cup {NullStr} :
         IF buf = NullStr
         THEN /\ Return(h, <<>>, "-1")
              /\ UNCHANGED <<globals, ghosts, locals, served, cstate, onopen>>
         ELSE /\ frm' = [frm EXCEPT ![h] = buf]
              /\ Goto(h, "L362")
              /\ UNCHANGED <<globals, ghosts, a, hit, tmp, idx, conn>>

\* do_handshake going on to the open state after serve_static_http.
AfterServeOpens(h, calls) ==
    /\ Return(h, calls, "0")
    /\ cstate' = [cstate EXCEPT ![h] = "OPEN"]
    /\ onopen' = [onopen EXCEPT ![h] = TRUE]

\* do_handshake after serve_static_http has returned (line 375).
AfterServe(h, calls) ==
    Return(h, calls, "-1") /\ UNCHANGED <<cstate, onopen>>

\* do_handshake, lines 362-376: the terminator test and the choice between
\* the static responder and the handshake.
Dispatch(h) ==
    /\ pc[h] = "L362"
    /\ \E send \in SendOutcomes :
         IF strstr(frm[h], Terminator, 1) = 0
         THEN /\ Return(h, <<ErrorResponse(400, BadRequestMsg, send)>>, "-1")
              /\ UNCHANGED <<globals, ghosts, locals, served, cstate, onopen>>
         ELSE IF ~looks_like_ws_upgrade(frm[h])
              THEN /\ served' = [served EXCEPT ![h] = TRUE]
                   /\ Goto(h, "L290")
                   /\ UNCHANGED <<globals, ghosts, locals, sent, ret, cstate, onopen>>
              ELSE /\ Goto(h, "L379")
                   /\ UNCHANGED <<globals, ghosts, locals, conn>>

\* The request line of connection h as http_parse_request_line splits it.
Parsed(h) == http_parse_request_line(frm[h])

GET == Chars("GET")
HEAD == Chars("HEAD")

\* serve_static_http, lines 290-314: the tests that need no table.
ServeStart(h) ==
    /\ pc[h] = "L290"
    /\ \E send \in SendOutcomes :
         IF strstr(frm[h], Terminator, 1) = 0
         THEN /\ AfterServe(h, <<ErrorResponse(400, BadRequestMsg, send)>>)
              /\ UNCHANGED <<globals, ghosts, locals, served>>
         ELSE IF Parsed(h).rc < 0
         THEN /\ AfterServe(h, <<ErrorResponse(400, BadRequestMsg, send)>>)
              /\ UNCHANGED <<globals, ghosts, locals, served>>
         ELSE IF Parsed(h).method # GET /\ Parsed(h).method # HEAD
         THEN /\ AfterServe(h, <<ErrorResponse(405, NotAllowedMsg, send)>>)
              /\ UNCHANGED <<globals, ghosts, locals, served>>
         ELSE /\ Goto(h, "L315")
              /\ UNCHANGED <<globals, ghosts, locals, conn>>

\* serve_static_http, line 315: a = ws_get_static_assets().
GetAssets(h) ==
    /\ pc[h] = "L315"
    /\ a' = [a EXCEPT ![h] = ws_get_static_assets]
    /\ g_assets' = ws_get_static_assets
    /\ Goto(h, "L258")
    /\ UNCHANGED <<static_root_alias, found_root_alias, ghosts, frm, hit, tmp, idx, conn>>

\* static_find_path, line 258: the test of found_root_alias.
FindPathEnter(h) ==
    /\ pc[h] = "L258"
    /\ Goto(h, IF found_root_alias THEN "L265" ELSE "L215")
    /\ UNCHANGED <<globals, ghosts, locals, conn>>

\* find_root_alias, line 215: the guard.
FindRootAliasGuard(h) ==
    /\ pc[h] = "L215"
    /\ Goto(h, IF found_root_alias THEN "L265" ELSE "L217")
    /\ UNCHANGED <<globals, ghosts, locals, conn>>

\* find_root_alias, line 217: found_root_alias = true.
SetFound(h) ==
    /\ pc[h] = "L217"
    /\ found_root_alias' = TRUE
    /\ Goto(h, "L221")
    /\ UNCHANGED <<g_assets, static_root_alias, ghosts, locals, conn>>

\* find_root_alias, line 221: return when the alias is not the default.
CheckDefault(h) ==
    /\ pc[h] = "L221"
    /\ IF static_root_alias # index_html
       THEN /\ Goto(h, "L265")
            /\ resolved' = TRUE
            /\ UNCHANGED <<scans, resolvedOn>>
       ELSE /\ Goto(h, "L228")
            /\ UNCHANGED ghosts
    /\ UNCHANGED <<globals, locals, conn>>

\* find_root_alias, lines 228-249: read the active table and scan it.
Scan(h) ==
    /\ pc[h] = "L228"
    /\ g_assets' = ws_get_static_assets
    /\ scans' = scans + 1
    /\ LET url == ScanTable(TableAt[ws_get_static_assets])
       IN IF url = NullStr
          THEN /\ Goto(h, "L265")
               /\ resolved' = TRUE
               /\ resolvedOn' = IF resolved THEN resolvedOn ELSE ws_get_static_assets
               /\ UNCHANGED hit
          ELSE /\ Goto(h, "L237")
               /\ hit' = [hit EXCEPT ![h] = url]
               /\ resolvedOn' = IF resolved THEN resolvedOn ELSE ws_get_static_assets
               /\ UNCHANGED resolved
    /\ UNCHANGED <<static_root_alias, found_root_alias, frm, a, tmp, idx, conn>>

\* find_root_alias, lines 237 and 250: the snprintf into static_root_alias,
\* and the return.
WriteAlias(h) ==
    /\ pc[h] = "L237"
    /\ static_root_alias' = Truncate(hit[h], AliasSize)
    /\ resolved' = TRUE
    /\ hit' = [hit EXCEPT ![h] = NullStr]
    /\ Goto(h, "L265")
    /\ UNCHANGED <<g_assets, found_root_alias, scans, resolvedOn, frm, a, tmp, idx, conn>>

\* static_find_path, lines 265-275: build tmp; a path of exactly "/" reads
\* static_root_alias.
MapPath(h) ==
    /\ pc[h] = "L265"
    /\ tmp' = [tmp EXCEPT ![h] = LookupKey(Parsed(h).path, static_root_alias)]
    /\ Goto(h, "L277")
    /\ UNCHANGED <<globals, ghosts, frm, a, hit, idx, conn>>

\* static_find_path, lines 277-284: read the active table and search it;
\* tmp dies with the return.
Lookup(h) ==
    /\ pc[h] = "L277"
    /\ g_assets' = ws_get_static_assets
    /\ idx' = [idx EXCEPT ![h] = FindInTable(TableAt[ws_get_static_assets], tmp[h])]
    /\ tmp' = [tmp EXCEPT ![h] = <<>>]
    /\ Goto(h, "L317")
    /\ UNCHANGED <<static_root_alias, found_root_alias, ghosts, frm, a, hit, conn>>

\* Entry i (0-based) of table t.
EntryOf(t, i) ==
    [contentType |-> TableAt[t].contentType[i + 1],
     content     |-> TableAt[t].content[i + 1],
     size        |-> TableAt[t].sizes[i + 1]]

AllEntries == {EntryOf(t, i - 1) : <<t, i>> \in
                 {<<t, i>> \in TablePtrs \X (1..3) : i <= TableAt[t].count}}

\* What a->contentType[i], a->content[i] and a->sizes[i] read: the entry,
\* or whatever lies behind the arrays when i is not below a->count.
ReadEntry(t, i) == IF i < TableAt[t].count THEN {EntryOf(t, i)} ELSE AllEntries

\* serve_static_http answering HEAD with body_len 0.
StaticAnswerHeadZero(e, method, headers, send) ==
    IF NotModified(e.contentType, headers)
    THEN http_send_response(304, e.contentType, NullStr, e.size, send)
    ELSE IF method = HEAD
    THEN http_send_response(200, e.contentType, NullStr, 0, send)
    ELSE http_send_response(200, e.contentType, e.content, e.size, send)

\* serve_static_http, lines 324-345: the response for a found entry e.
StaticAnswer(e, method, headers, send) ==
    IF NotModified(e.contentType, headers)
    THEN http_send_response(304, e.contentType, NullStr, e.size, send)
    ELSE IF method = HEAD
    THEN http_send_response(200, e.contentType, NullStr, e.size, send)
    ELSE http_send_response(200, e.contentType, e.content, e.size, send)

\* serve_static_http, lines 317-345: 404, 304, or 200 without or with body.
Respond(h) ==
    /\ pc[h] = "L317"
    /\ \E send \in SendOutcomes :
         IF idx[h] < 0
         THEN AfterServe(h, <<ErrorResponse(404, NotFoundMsg, send)>>)
         ELSE \E e \in ReadEntry(a[h], idx[h]) :
                AfterServe(h, <<StaticAnswer(e, Parsed(h).method, Parsed(h).headers, send)>>)
    /\ UNCHANGED <<globals, ghosts, locals, served>>

HandshakeOutcomes == {"malloc_fails", "bad_handshake", "send_fails", "ok"}

\* do_handshake, lines 379-406: the WebSocket handshake.
WsHandshake(h) ==
    /\ pc[h] = "L379"
    /\ \E out \in HandshakeOutcomes, send \in SendOutcomes :
         CASE out = "malloc_fails" ->
                Return(h, <<>>, "-1") /\ UNCHANGED <<cstate, onopen>>
           [] out = "bad_handshake" ->
                /\ Return(h, <<ErrorResponse(400, BadHandshakeMsg, send)>>, "-1")
                /\ UNCHANGED <<cstate, onopen>>
           [] out = "send_fails" ->
                Return(h, <<>>, "-1") /\ UNCHANGED <<cstate, onopen>>
           [] out = "ok" ->
                /\ Return(h, <<>>, "0")
                /\ cstate' = [cstate EXCEPT ![h] = "OPEN"]
                /\ onopen' = [onopen EXCEPT ![h] = TRUE]
    /\ UNCHANGED <<globals, ghosts, locals, served>>

\* The caller closes the connection; the handler thread serves the next one.
Close(h) ==
    /\ pc[h] = "done"
    /\ pc' = [pc EXCEPT ![h] = "idle"]
    /\ frm' = [frm EXCEPT ![h] = <<>>]
    /\ a' = [a EXCEPT ![h] = NULL]
    /\ hit' = [hit EXCEPT ![h] = NullStr]
    /\ tmp' = [tmp EXCEPT ![h] = <<>>]
    /\ idx' = [idx EXCEPT ![h] = NoIdx]
    /\ sent' = [sent EXCEPT ![h] = <<>>]
    /\ served' = [served EXCEPT ![h] = FALSE]
    /\ ret' = [ret EXCEPT ![h] = "none"]
    /\ cstate' = [cstate EXCEPT ![h] = "CONNECTING"]
    /\ onopen' = [onopen EXCEPT ![h] = FALSE]
    /\ UNCHANGED <<globals, ghosts, cvars>>

\* One step of connection handler h after its RECV.
Step(h) ==
    \/ Dispatch(h)
    \/ ServeStart(h)
    \/ GetAssets(h)
    \/ FindPathEnter(h)
    \/ FindRootAliasGuard(h)
    \/ SetFound(h)
    \/ CheckDefault(h)
    \/ Scan(h)
    \/ WriteAlias(h)
    \/ MapPath(h)
    \/ Lookup(h)
    \/ Respond(h)
    \/ WsHandshake(h)
    \/ Close(h)

\* Handlers run concurrently, one thread per connection, and the host may
\* register a table at any time.
Next ==
    \/ \E h \in Handlers : Recv(h, ConcRequests) \/ Step(h)
    \/ \E set \in ConcTables : ws_set_static_assets(set)

Spec == Init /\ [][Next]_vars

\* No handler is inside do_handshake.
Quiescent == \A h \in Handlers : pc[h] = "idle"

\* One connection at a time, and the host registers tables between them.
NextSeq ==
    \/ Recv(1, SeqRequests)
    \/ Step(1)
    \/ \E set \in SeqTables : Quiescent /\ ws_set_static_assets(set)

SpecSeq == Init /\ [][NextSeq]_vars

\* Requests and tables of the specification that serves connections one
\* after the other and keeps each finished exchange until it is closed.
PairRequests ==
    { Request(line, hs, TRUE) :
        line \in {"GET /style.css HTTP/1.1", "HEAD /style.css HTTP/1.1"},
        hs \in {NoHeaders, MatchStyle} }
    \cup { Request(line, NoHeaders, TRUE) : line \in {"GET / HTTP/1.1", "HEAD / HTTP/1.1"} }
    \cup { Request("GET /chat HTTP/1.1", KeyHeader, TRUE) }

PairTables == {2, 3}

\* Every handler but h is outside do_handshake.
OthersQuiet(h) == \A g \in Handlers \ {h} : pc[g] \in {"idle", "done"}

\* A connection is accepted only while no other handler is serving one.
NextPair ==
    \/ \E h \in Handlers : OthersQuiet(h) /\ Recv(h, PairRequests)
    \/ \E h \in Handlers : Step(h)
    \/ \E set \in PairTables : Quiescent /\ ws_set_static_assets(set)

SpecPair == Init /\ [][NextPair]_vars


(***************************************************************************)
(* The request and the table as the specification describes them           *)
(***************************************************************************)

\* The request line: the first line of the buffer, without its line break.
RequestLine(buf) ==
    LET e == strstr(buf, CRLF, 1)
    IN IF e = 0 THEN buf ELSE SubSeq(buf, 1, e - 1)

\* The header block: what follows the request line.
HeaderBlock(buf) ==
    LET e == strstr(buf, CRLF, 1)
    IN IF e = 0 THEN <<>> ELSE SubSeq(buf, e + 2, Len(buf))

\* The request line has both separator spaces.
Splits(buf) ==
    LET line == RequestLine(buf)
        s1 == strchr(line, " ", 1)
    IN s1 # 0 /\ strchr(line, " ", s1 + 1) # 0

MethodOf(buf) ==
    LET line == RequestLine(buf)
    IN SubSeq(line, 1, strchr(line, " ", 1) - 1)

PathOf(buf) ==
    LET line == RequestLine(buf)
        s1 == strchr(line, " ", 1)
    IN SubSeq(line, s1 + 1, strchr(line, " ", s1 + 1) - 1)

\* The path as looked up: the alias for "/", else the path without query.
Normalized(path, alias) ==
    IF path = Chars("/") THEN alias
    ELSE LET q == strchr(path, "?", 1)
         IN IF q = 0 THEN path ELSE SubSeq(path, 1, q - 1)

\* Positions (1-based) of the entries of table t with url u.
Positions(t, u) == {i \in 1..TableAt[t].count : TableAt[t].urls[i] = u}

HasUrl(t, u) == Positions(t, u) # {}

\* The 40-character validator of a header string, <<>> when it has none.
ValidatorOf(custom) ==
    LET etag == get_content_between(custom, Chars("etag: \""), Chars("\""))
    IN IF etag.ptr # 0 /\ etag.size = EtagSize
       THEN SubSeq(custom, etag.ptr, etag.ptr + EtagSize - 1)
       ELSE <<>>

\* The header lines of a header block, as name and value.
HeaderLinesOf(hs) ==
    LET starts == {1} \cup {i + 2 : i \in {j \in 1..Len(hs) : MatchAt(hs, CRLF, j)}}
        LineAt(s) == LET e == strstr(hs, CRLF, s)
                     IN IF e = 0 THEN SubSeq(hs, s, Len(hs)) ELSE SubSeq(hs, s, e - 1)
        Field(l) == LET c == strchr(l, ":", 1)
                    IN [name |-> SubSeq(l, 1, c - 1), value |-> SubSeq(l, c + 1, Len(l))]
    IN {Field(LineAt(s)) : s \in {x \in starts : x <= Len(hs) /\ strchr(LineAt(x), ":", 1) # 0}}

\* The header block has an If-None-Match header (name in any case) whose
\* value contains the validator v, its hex digits in either case.
IfNoneMatchContains(hs, v) ==
    \E f \in HeaderLinesOf(hs) :
        /\ ToLowerStr(f.name) = Chars("if-none-match")
        /\ strcasestr(f.value, v, 1) # 0

DigitValue(c) == (CHOOSE i \in 1..10 : Digits[i] = c) - 1

RECURSIVE ParseDec(_)
ParseDec(ds) ==
    IF Len(ds) = 0 THEN 0
    ELSE 10 * ParseDec(SubSeq(ds, 1, Len(ds) - 1)) + DigitValue(ds[Len(ds)])

\* The Content-Length a response header declares.
DeclaredLength(hdr) ==
    LET f == get_content_between(hdr, Chars("Content-Length: "), Chars("\r"))
    IN ParseDec(SubSeq(hdr, f.ptr, f.ptr + f.size - 1))

\* Connection h went through serve_static_http and do_handshake returned.
Served(h) == pc[h] = "done" /\ served[h]

\* Connection h was served one response and its SENDs succeeded.
Answered(h) == Served(h) /\ Len(sent[h]) = 1 /\ sent[h][1].rc = 0

\* The table serve_static_http used for connection h.
TableOf(h) == IF a[h] = NULL THEN DefaultSetPtr ELSE a[h]


(***************************************************************************)
(* Claims about the decision table and the conditional GET                 *)
(***************************************************************************)

\* The status the decision table gives for buffer buf, table t and alias.
DecisionStatus(buf, t, alias) ==
    IF strstr(buf, Terminator, 1) = 0 THEN 400
    ELSE IF ~Splits(buf) THEN 400
    ELSE IF MethodOf(buf) # GET /\ MethodOf(buf) # HEAD THEN 405
    ELSE LET found == Positions(t, Normalized(PathOf(buf), alias))
         IN IF found = {} THEN 404
            ELSE LET v == ValidatorOf(TableAt[t].contentType[FirstOf(found)])
                 IN IF v # <<>> /\ IfNoneMatchContains(HeaderBlock(buf), v) THEN 304
                    ELSE 200

\* The stored payload of the entry buf asks for (buf splits and is found).
PayloadFor(buf, t, alias) ==
    TableAt[t].content[FirstOf(Positions(t, Normalized(PathOf(buf), alias)))]

\* C1: every buffer handed to serve_static_http gets exactly one response,
\* whose status is the one of the first rule of the decision table that
\* applies (no terminator 400, request line not splitting 400, method not
\* GET/HEAD 405, path not in the table 404, validator matching
\* If-None-Match 304, HEAD 200 without body, GET 200 with body).
C1_DecisionOrder ==
    \A h \in Handlers :
        /\ Served(h) => Len(sent[h]) = 1
        /\ Answered(h) =>
             LET r == sent[h][1]
                 want == DecisionStatus(frm[h], TableOf(h), static_root_alias)
             IN /\ r.code = want
                /\ (want = 200 /\ MethodOf(frm[h]) = HEAD) => r.body = <<>>
                /\ (want = 304) => r.body = <<>>
                /\ (want = 200 /\ MethodOf(frm[h]) = GET) =>
                       r.body = PayloadFor(frm[h], TableOf(h), static_root_alias)

\* The request of connection h is a GET or HEAD for an entry of the table
\* that carries a validator.
AsksForValidated(h) ==
    /\ strstr(frm[h], Terminator, 1) # 0
    /\ Splits(frm[h])
    /\ MethodOf(frm[h]) \in {GET, HEAD}
    /\ LET found == Positions(TableOf(h), Normalized(PathOf(frm[h]), static_root_alias))
       IN /\ found # {}
          /\ ValidatorOf(TableAt[TableOf(h)].contentType[FirstOf(found)]) # <<>>

\* The validator of the entry connection h asks for.
ValidatorFor(h) ==
    ValidatorOf(TableAt[TableOf(h)].contentType[
        FirstOf(Positions(TableOf(h), Normalized(PathOf(frm[h]), static_root_alias)))])

\* C2: a GET or HEAD for an entry with a validator whose If-None-Match
\* header (name in any case) has the validator anywhere in its value is
\* answered 304 without body bytes.
C2_ValidatorAnywhere ==
    \A h \in Handlers :
        (Answered(h) /\ AsksForValidated(h)
           /\ IfNoneMatchContains(HeaderBlock(frm[h]), ValidatorFor(h))) =>
          /\ sent[h][1].code = 304
          /\ sent[h][1].body = <<>>

\* C3: a 304 is sent only when the full validator of the entry is in the
\* header block, and a GET for an existing path whose If-None-Match value
\* is absent, different or a truncated prefix of the validator is answered
\* 200 with the full stored payload.
C3_FullValidatorOnly ==
    \A h \in Handlers :
        Answered(h) =>
          /\ (sent[h][1].code = 304) =>
                /\ AsksForValidated(h)
                /\ strcasestr(HeaderBlock(frm[h]), ValidatorFor(h), 1) # 0
          /\ (AsksForValidated(h) /\ MethodOf(frm[h]) = GET
                /\ ~IfNoneMatchContains(HeaderBlock(frm[h]), ValidatorFor(h))) =>
                /\ sent[h][1].code = 200
                /\ sent[h][1].body = PayloadFor(frm[h], TableOf(h), static_root_alias)


(***************************************************************************)
(* Claims about HEAD and Content-Length                                    *)
(***************************************************************************)

\* The stored payload size of the entry serve_static_http found for h.
StoredSize(h) == TableAt[a[h]].sizes[idx[h] + 1]

\* g was a GET and h the HEAD with the same path and headers, both were
\* answered from the same table, and the path is in the table.
ParityPair(g, h) ==
    /\ Answered(g) /\ Answered(h)
    /\ MethodOf(frm[g]) = GET
    /\ frm[h] = HEAD \o SubSeq(frm[g], Len(GET) + 1, Len(frm[g]))
    /\ a[g] = a[h]
    /\ Positions(TableOf(h), Normalized(PathOf(frm[h]), static_root_alias)) # {}

C6_ScanOnce == scans <= 1

\* C7: when the table of the first resolution has an entry /index.html,
\* the alias resolves to /index.html, wherever that entry and an entry /
\* stand in the table.
C7_IndexPriority ==
    (resolved /\ resolvedOn # NULL /\ HasUrl(resolvedOn, index_html))
        => static_root_alias = index_html

EndsInHtml(u) ==
    /\ u # NullStr
    /\ Len(u) >= Len(dot_html)
    /\ SubSeq(u, Len(u) - Len(dot_html) + 1, Len(u)) = dot_html

HtmlEntries(t) == {i \in 1..TableAt[t].count : EndsInHtml(TableAt[t].urls[i])}

\* h asked for / with GET or HEAD, against the table the alias was
\* resolved on, and was answered.
RootAnswered(h) ==
    /\ Answered(h)
    /\ Splits(frm[h])
    /\ MethodOf(frm[h]) \in {GET, HEAD}
    /\ PathOf(frm[h]) = classic_root
    /\ a[h] = resolvedOn

\* C8: when the table of the resolution has neither /index.html nor /, the
\* alias is the url of the only .html entry if there is exactly one, and a
\* request for / is answered with that entry; otherwise the alias stays
\* /index.html and a request for / is answered 404.
C8_Fallback ==
    (resolved /\ resolvedOn # NULL
        /\ ~HasUrl(resolvedOn, index_html) /\ ~HasUrl(resolvedOn, classic_root))
    => LET t == TableAt[resolvedOn]
           htmls == HtmlEntries(resolvedOn)
       IN IF Cardinality(htmls) = 1
          THEN LET i == FirstOf(htmls) IN
               /\ static_root_alias = t.urls[i]
               /\ \A h \in Handlers : RootAnswered(h) =>
                    /\ sent[h][1].code \in {200, 304}
                    /\ strstr(sent[h][1].hdr, t.contentType[i], 1) # 0
                    /\ DeclaredLength(sent[h][1].hdr) = t.sizes[i]
                    /\ (sent[h][1].code = 200 /\ MethodOf(frm[h]) = GET)
                          => sent[h][1].body = t.content[i]
          ELSE /\ static_root_alias = index_html
               /\ \A h \in Handlers : RootAnswered(h) => sent[h][1].code = 404

C8_Witness ==
    \E h \in Handlers :
        /\ resolved /\ resolvedOn = 2
        /\ RootAnswered(h)
        /\ MethodOf(frm[h]) = GET
        /\ sent[h][1].code = 200
        /\ sent[h][1].body = AboutHtml.content

\* C9: once the alias has been resolved, no step of any handler and no
\* table swap changes static_root_alias.
C9_AliasImmutable ==
    [][resolved => static_root_alias' = static_root_alias]_vars

(***************************************************************************)
(* Claims about the connection                                             *)
(***************************************************************************)

\* C10: a connection whose request went to serve_static_http is never
\* opened: do_handshake returns -1, the state is never WS_STATE_OPEN and
\* onopen is never called, whatever was sent and whether or not the send
\* succeeded.
C10_StaticNeverOpen ==
    \A h \in Handlers :
        served[h] =>
            /\ cstate[h] # "OPEN"
            /\ ~onopen[h]
            /\ (pc[h] = "done") => ret[h] = "-1"

C10_Witness ==
    \E h \in Handlers :
        /\ Served(h)
        /\ pc[h] = "done" /\ ret[h] = "-1"
        /\ Len(sent[h]) = 1
        /\ sent[h][1].rc = -1

(***************************************************************************)
(* Claims about the upgrade test, the accessor and the request line        *)
(***************************************************************************)

\* The buffer contains name, letter case ignored.
ContainsNoCase(buf, name) ==
    \E i \in 1..Len(buf) :
        /\ i + Len(name) - 1 <= Len(buf)
        /\ \A k \in 1..Len(name) : tolower(buf[i + k - 1]) = tolower(name[k])

\* do_handshake has made its choice for connection h, whose buffer holds
\* the header terminator.
Dispatched(h) ==
    /\ pc[h] \notin {"idle", "L362"}
    /\ strstr(frm[h], Terminator, 1) # 0

\* C11: for a buffer with the header terminator, serve_static_http is
\* called iff the buffer does not contain Sec-WebSocket-Key in any letter
\* case; when it contains it, control is on the handshake path and nothing
\* but the handshake's own 400 is sent.
C11_UpgradeDeferral ==
    \A h \in Handlers :
        Dispatched(h) =>
            /\ served[h] <=> ~ContainsNoCase(frm[h], Chars("Sec-WebSocket-Key"))
            /\ ContainsNoCase(frm[h], Chars("Sec-WebSocket-Key")) =>
                 /\ pc[h] \in {"L379", "done"}
                 /\ \A i \in 1..Len(sent[h]) :
                      /\ sent[h][i].code = 400
                      /\ sent[h][i].body \in {<<>>, BadHandshakeMsg}

C11_Witness ==
    \E h \in Handlers :
        /\ Dispatched(h) /\ pc[h] = "done"
        /\ strstr(frm[h], Chars("sec-websocket-key"), 1) # 0
        /\ ~served[h]
        /\ cstate[h] = "OPEN"

\* What ws_get_static_assets has to return after ws_set_static_assets(set).
ActiveAfter(set) == IF set = NULL THEN DefaultSetPtr ELSE set

\* The accessor returns a non-null table; a registration makes it return
\* the registered table, or the built-in one for NULL; no other step
\* changes what it returns.
AccessorFollowsRegistration ==
    /\ [](ws_get_static_assets # NULL)
    /\ [][\A set \in SeqTables :
            ws_set_static_assets(set) => ws_get_static_assets' = ActiveAfter(set)]_vars
    /\ [][(\A set \in SeqTables : ~ws_set_static_assets(set))
            => ws_get_static_assets' = ws_get_static_assets]_vars

\* Connection h asked for / with GET while the built-in table was active,
\* and was answered.
PlaceholderRoot(h) ==
    /\ Answered(h)
    /\ Splits(frm[h])
    /\ MethodOf(frm[h]) = GET
    /\ PathOf(frm[h]) = classic_root
    /\ a[h] = DefaultSetPtr

PlaceholderPage(h) ==
    /\ sent[h][1].code = 200
    /\ sent[h][1].body = default_static_html_text

\* C12 as claimed: the accessor follows the registrations, and with the
\* built-in table active a GET for / is answered 200 with its page.
C12_ActiveTable ==
    /\ AccessorFollowsRegistration
    /\ [](\A h \in Handlers : PlaceholderRoot(h) => PlaceholderPage(h))

\* C12 amended: the accessor follows the registrations, and with the
\* built-in table active a GET for / is answered 200 with its page when
\* the root alias is /, as it is when it was resolved on the built-in table.
C12_ActiveTableAlias ==
    /\ AccessorFollowsRegistration
    /\ [](\A h \in Handlers :
            PlaceholderRoot(h) =>
                /\ (resolvedOn = DefaultSetPtr) => static_root_alias = classic_root
                /\ (static_root_alias = classic_root) => PlaceholderPage(h))

C12_Witness ==
    \E h \in Handlers :
        /\ PlaceholderRoot(h)
        /\ resolvedOn = DefaultSetPtr
        /\ PlaceholderPage(h)

\* C13: a request whose first line lacks a separator space is answered
\* 400, whatever the header lines that follow contain.
C13_RequestLine400 ==
    \A h \in Handlers :
        (Answered(h) /\ strstr(frm[h], Terminator, 1) # 0 /\ ~Splits(frm[h]))
            => sent[h][1].code = 400

(***************************************************************************)
(* Claims about concurrent first requests                                  *)
(***************************************************************************)

\* Handler h has mapped the path / to the alias (line 268) and has not yet
\* searched the table.
MappedRoot(h) ==
    /\ pc[h] = "L277"
    /\ Splits(frm[h])
    /\ PathOf(frm[h]) = classic_root

\* C20: a handler maps / only after a resolution of the alias has
\* completed, so it never reads the alias while another handler is still
\* computing it.
C20_NoHalfResolved ==
    \A h \in Handlers : MappedRoot(h) => resolved

(***************************************************************************)
(* dir2statics: helpers                                                    *)
(***************************************************************************)

\* The printable characters in the order of their byte values, from 32.
Ascii ==
    Chars(" !\"#$%&'()*+,-./0123456789:;<=>?@ABCDEFGHIJKLMNOPQRSTUVWXYZ[\\]^_")
      \o <<"grave accent">> \o Chars("abcdefghijklmnopqrstuvwxyz{|}~")

\* The value of a character as unsigned char.
ByteOf(c) == 31 + CHOOSE i \in 1..Len(Ascii) : Ascii[i] = c

LastOf(S) == IF S = {} THEN 0 ELSE CHOOSE i \in S : \A j \in S : j <= i

\* strcmp: the difference of the first bytes that differ; a string that is
\* a prefix of the other ends in the byte 0.
strcmp(sa, sb) ==
    LET n == IF Len(sa) < Len(sb) THEN Len(sa) ELSE Len(sb)
        d == FirstOf({k \in 1..n : sa[k] # sb[k]})
    IN IF d # 0 THEN ByteOf(sa[d]) - ByteOf(sb[d])
       ELSE IF Len(sa) = Len(sb) THEN 0
       ELSE IF Len(sa) < Len(sb) THEN 0 - ByteOf(sb[n + 1])
       ELSE ByteOf(sa[n + 1])

strcasecmp(sa, sb) == strcmp(ToLowerStr(sa), ToLowerStr(sb))

\* strrchr(s, c): index of the last c, 0 if none.
strrchr(s, c) == LastOf({i \in 1..Len(s) : s[i] = c})

\* cmp_strptr with strcasecmp.
cmp_strptr_nocase(sa, sb) == strcasecmp(sa, sb)

cmp_strptr(sa, sb) == strcmp(sa, sb)

\* The extensions of content_type_for_filename in the order of its tests.
ContentTypes ==
    << <<".html", "text/html; charset=utf-8">>,
       <<".htm", "text/html; charset=utf-8">>,
       <<".js", "text/javascript; charset=utf-8">>,
       <<".css", "text/css; charset=utf-8">>,
       <<".json", "application/json; charset=utf-8">>,
       <<".txt", "text/plain; charset=utf-8">>,
       <<".svg", "image/svg+xml">>,
       <<".png", "image/png">>,
       <<".jpg", "image/jpeg">>,
       <<".jpeg", "image/jpeg">>,
       <<".gif", "image/gif">>,
       <<".ico", "image/x-icon">>,
       <<".wasm", "application/wasm">>,
       <<".woff", "font/woff">>,
       <<".woff2", "font/woff2">> >>

\* content_type_for_filename comparing the extension with strcmp.
content_type_for_filename_exact(name) ==
    LET dot == strrchr(name, ".")
    IN IF dot = 0 \/ dot = 1 THEN NullStr
       ELSE LET ext == SubSeq(name, dot, Len(name))
                k == FirstOf({j \in 1..Len(ContentTypes) :
                                 strcmp(ext, Chars(ContentTypes[j][1])) = 0})
            IN IF k = 0 THEN NullStr ELSE Chars(ContentTypes[k][2])

\* content_type_for_filename: NullStr stands for the return value 0.
content_type_for_filename(name) ==
    LET dot == strrchr(name, ".")
    IN IF dot = 0 \/ dot = 1 THEN NullStr
       ELSE LET ext == SubSeq(name, dot, Len(name))
                k == FirstOf({j \in 1..Len(ContentTypes) :
                                 strcasecmp(ext, Chars(ContentTypes[j][1])) = 0})
            IN IF k = 0 THEN NullStr ELSE Chars(ContentTypes[k][2])

\* is_regular_file: stat succeeds and S_ISREG; the names of the model are
\* short, so the path always fits.
is_regular_file(e) == e.kind = "reg"

isalnum(c) ==
    \/ \E i \in 1..26 : c = UpperChars[i] \/ c = LowerChars[i]
    \/ \E i \in 1..10 : c = Digits[i]

IdentSize == 512

\* ident_from_filename
ident_from_filename(name) ==
    LET n == IF Len(name) < IdentSize - 2 THEN Len(name) ELSE IdentSize - 2
    IN IF n = 0 THEN Chars("file")
       ELSE [i \in 1..n |-> IF isalnum(name[i]) THEN name[i] ELSE "_"]

\* The name of the payload array of a file, lines 390-391.
arrname(name) == Chars("ws_static_") \o ident_from_filename(name)

\* SHA-1 of the file contents of the model, as the 40 upper-case hex
\* characters of lines 379-384.
hexhash(data) ==
    CASE data = Chars("password") -> EtagStyle
      [] data = <<>> -> EtagIndex
      [] data = Chars("c") -> EtagBlog
      [] OTHER -> EtagAbout

\* deflate with the gzip wrapper: header, compressed data, trailer.
gzip(data) == <<"1f", "8b", "08">> \o data \o <<"crc32", "isize">>

\* qsort(names, count, sizeof(char *), cmp_strptr): the names in the order
\* of the comparison function.
qsort(base) ==
    LET n == Len(base)
        p == CHOOSE q \in [1..n -> 1..n] :
                /\ \A i, j \in 1..n : i # j => q[i] # q[j]
                /\ \A i, j \in 1..n : i < j => cmp_strptr(base[q[i]], base[q[j]]) <= 0
    IN [i \in 1..n |-> base[p[i]]]

(***************************************************************************)
(* dir2statics: input directories                                          *)
(***************************************************************************)

\* A directory entry: top is FALSE for an entry below a subdirectory;
\* readable is FALSE for a file read_file cannot read.
Entry(name, kind, data, readable, top) ==
    [name |-> name, kind |-> kind, data |-> data, readable |-> readable, top |-> top]

File(name, data) == Entry(name, "reg", data, TRUE, TRUE)

StyleFile == File("style.css", "password")
IndexFile == File("index.html", "")
UpperFile == File("Zed.HTML", "c")
NoExtFile == File("notes", "c")
DotFile == File(".html", "c")
TarGzFile == File("archive.tar.gz", "c")
LockedFile == Entry("locked.js", "reg", "c", FALSE, TRUE)
ImgDir == Entry("img", "dir", "", TRUE, TRUE)
DeepFile == Entry("deep.html", "reg", "c", TRUE, FALSE)
CssDir == Entry("sub.css", "dir", "", TRUE, TRUE)
FifoJs == Entry("pipe.js", "special", "", TRUE, TRUE)
DotDot == Entry("..", "dir", "", TRUE, TRUE)
DashFile == File("a-b.js", "c")
UnderscoreFile == File("a_b.js", "password")

Directories ==
    { {StyleFile, IndexFile, UpperFile},
      {StyleFile, NoExtFile, DotFile, TarGzFile},
      {IndexFile, ImgDir, DeepFile, CssDir, FifoJs},
      {StyleFile, LockedFile, DotDot},
      {DashFile, UnderscoreFile},
      {} }

\* argv[3]; <<>> stands for an absent or empty argument.
PrefixArgs == {<<>>, Chars("/s/")}

\* What the memory returned by malloc for cHdr may hold.
Garbage == {<<>>, Chars("?#")}

cap == 32

DeflateOutcomes == {"ok", "deflate_fails", "no_memory"}

\* The entry of the input directory with this name.
FileOf(name) == CHOOSE e \in dir : e.top /\ Chars(e.name) = name

(***************************************************************************)
(* dir2statics: main                                                       *)
(***************************************************************************)

\* The compiler is started on a directory with a url prefix.
InitCompile ==
    /\ ServerInit
    /\ dir \in Directories
    /\ \E arg \in PrefixArgs : url_prefix = IF arg = <<>> THEN Chars("/") ELSE arg
    /\ NotStarted
    /\ NotHashing

\* die(msg): exit(1).
die(r) ==
    /\ status' = [status EXCEPT ![r] = "1"]
    /\ cpc' = [cpc EXCEPT ![r] = "exit"]

\* main, lines 272-280: opendir and the two mallocs.
Opendir(r) ==
    /\ cpc[r] = "start"
    /\ \E ok \in BOOLEAN, g \in Garbage :
         IF ~ok
         THEN /\ die(r)
              /\ UNCHANGED <<todo, cHdr>>
         ELSE /\ cpc' = [cpc EXCEPT ![r] = "readdir"]
              /\ todo' = [todo EXCEPT ![r] = {e \in dir : e.top}]
              /\ cHdr' = [cHdr EXCEPT ![r] = [i \in 1..cap |-> g]]
              /\ UNCHANGED status
    /\ UNCHANGED <<vars, hvars, dir, url_prefix, names, ci, emitted, report, gzfailed, resp>>

\* main, lines 284-306: one turn of the readdir loop; readdir returns the
\* entries in any order.
Readdir(r) ==
    /\ cpc[r] = "readdir"
    /\ \E e \in todo[r] :
         LET nm == Chars(e.name)
             skip == \/ strcmp(nm, Chars(".")) = 0
                     \/ strcmp(nm, Chars("..")) = 0
                     \/ content_type_for_filename(nm) = NullStr
                     \/ ~is_regular_file(e)
         IN /\ todo' = [todo EXCEPT ![r] = todo[r] \ {e}]
            /\ names' = [names EXCEPT ![r] = IF skip THEN names[r] ELSE Append(names[r], nm)]
    /\ UNCHANGED <<vars, hvars, dir, url_prefix, cpc, cHdr, ci, emitted, report, gzfailed, status, resp>>

\* main, lines 307-347: closedir, qsort, fopen, the prelude, static_count
\* and static_urls.
Qsort(r) ==
    /\ cpc[r] = "readdir"
    /\ todo[r] = {}
    /\ \E ok \in BOOLEAN :
         IF ~ok
         THEN /\ die(r)
              /\ UNCHANGED <<names, ci, emitted>>
         ELSE LET sorted == qsort(names[r])
              IN /\ names' = [names EXCEPT ![r] = sorted]
                 /\ emitted' = [emitted EXCEPT ![r] =
                       [NoOutput EXCEPT
                          !.static_count = Len(sorted),
                          !.static_urls = [i \in 1..Len(sorted) |-> url_prefix \o sorted[i]]]]
                 /\ ci' = [ci EXCEPT ![r] = 1]
                 /\ cpc' = [cpc EXCEPT ![r] = "emit"]
                 /\ UNCHANGED status
    /\ UNCHANGED <<vars, hvars, dir, url_prefix, todo, cHdr, report, gzfailed, resp>>

\* main, lines 352-402: one turn of the loop that emits the payload arrays.
EmitFile(r) ==
    /\ cpc[r] = "emit"
    /\ ci[r] <= Len(names[r])
    /\ LET nm == names[r][ci[r]]
           e == FileOf(nm)
           data == Chars(e.data)
       IN IF ~e.readable
          THEN /\ report' = [report EXCEPT ![r] = report[r] \cup {nm}]
               /\ ci' = [ci EXCEPT ![r] = ci[r] + 1]
               /\ UNCHANGED <<cpc, cHdr, emitted, gzfailed, status>>
          ELSE /\ cHdr' = [cHdr EXCEPT ![r][ci[r]] =
                              CustomHeader(hexhash(data), content_type_for_filename(nm))]
               /\ \E z \in DeflateOutcomes :
                    CASE z = "ok" ->
                           /\ emitted' = [emitted EXCEPT ![r].arrays =
                                 Append(emitted[r].arrays,
                                        [name |-> arrname(nm), bytes |-> gzip(data)])]
                           /\ ci' = [ci EXCEPT ![r] = ci[r] + 1]
                           /\ UNCHANGED <<cpc, gzfailed, status>>
                      [] z = "deflate_fails" ->
                           /\ gzfailed' = [gzfailed EXCEPT ![r] = gzfailed[r] \cup {nm}]
                           /\ ci' = [ci EXCEPT ![r] = ci[r] + 1]
                           /\ UNCHANGED <<cpc, emitted, status>>
                      [] z = "no_memory" ->
                           /\ die(r)
                           /\ UNCHANGED <<ci, emitted, gzfailed>>
               /\ UNCHANGED report
    /\ UNCHANGED <<vars, hvars, dir, url_prefix, todo, names, resp>>

\* main, lines 404-460: static_contentType, static_content,
\* static_content_size, the set, and return 0.
EmitTables(r) ==
    /\ cpc[r] = "emit"
    /\ ci[r] > Len(names[r])
    /\ LET count == Len(names[r])
       IN emitted' = [emitted EXCEPT ![r] =
             [emitted[r] EXCEPT
                !.static_contentType =
                    [i \in 1..count |-> [comment |-> names[r][i], text |-> cHdr[r][i]]],
                !.static_content = [i \in 1..count |-> arrname(names[r][i])],
                !.static_content_size = [i \in 1..count |-> arrname(names[r][i])]]]
    /\ status' = [status EXCEPT ![r] = "0"]
    /\ cpc' = [cpc EXCEPT ![r] = "exit"]
    /\ UNCHANGED <<vars, hvars, dir, url_prefix, todo, names, cHdr, ci, report, gzfailed, resp>>

\* The payload arrays of run r named by entry i of static_content.
ArraysOf(r, i) ==
    {k \in 1..Len(emitted[r].arrays) :
        emitted[r].arrays[k].name = emitted[r].static_content[i]}

\* The emitted header compiles: every entry names exactly one array.
Compiles(r) ==
    /\ status[r] = "0"
    /\ \A i \in 1..emitted[r].static_count : Cardinality(ArraysOf(r, i)) = 1

\* Entry i of the table of run r as statics.h sees it.
EmittedEntry(r, i) ==
    LET arr == emitted[r].arrays[FirstOf(ArraysOf(r, i))]
    IN [url         |-> emitted[r].static_urls[i],
        contentType |-> emitted[r].static_contentType[i].text,
        content     |-> arr.bytes,
        size        |-> Len(arr.bytes)]

\* serve_static_http answers a request for entry i of an emitted table.
ServeEmitted(r) ==
    /\ Compiles(r)
    /\ \E i \in 1..emitted[r].static_count, method \in {GET, HEAD},
          hs \in {NoHeaders, MatchStyle}, send \in SendOutcomes :
         resp' = [index |-> i, method |-> method,
                  call |-> StaticAnswer(EmittedEntry(r, i), method, hs, send)]
    /\ UNCHANGED <<vars, hvars, dir, url_prefix, cpc, todo, names, cHdr, ci, emitted,
                   report, gzfailed, status>>

\* One run of the compiler, and the server answering from its table.
NextCompile ==
    \/ Opendir(1)
    \/ Readdir(1)
    \/ Qsort(1)
    \/ EmitFile(1)
    \/ EmitTables(1)
    \/ ServeEmitted(1)

SpecCompile == InitCompile /\ [][NextCompile]_<<vars, cvars>>

\* Run r may start: the runs before it have exited.
Turn(r) == \A q \in Runs : q < r => cpc[q] = "exit"

\* The compiler is run twice on the same directory.
NextTwice ==
    \/ \E r \in Runs : Turn(r) /\ Opendir(r)
    \/ \E r \in Runs : Turn(r) /\ Readdir(r)
    \/ \E r \in Runs : Turn(r) /\ Qsort(r)
    \/ \E r \in Runs : Turn(r) /\ EmitFile(r)
    \/ \E r \in Runs : Turn(r) /\ EmitTables(r)

SpecTwice == InitCompile /\ [][NextTwice]_<<vars, cvars>>

(***************************************************************************)
(* Claims about the generated table                                        *)
(***************************************************************************)

\* x is before y in byte-wise lexicographic order.
BytewiseLess(x, y) ==
    \E k \in 1..(Len(y)) :
        /\ \A j \in 1..(k - 1) : j <= Len(x) /\ x[j] = y[j]
        /\ \/ k = Len(x) + 1
           \/ k <= Len(x) /\ ByteOf(x[k]) < ByteOf(y[k])

\* C14: the urls of a generated table are strictly increasing in
\* byte-wise lexicographic order, hence pairwise distinct.
C14_UrlsIncrease ==
    \A r \in Runs :
        LET urls == emitted[r].static_urls
        IN \A i \in 1..(Len(urls) - 1) : BytewiseLess(urls[i], urls[i + 1])

C14_Witness ==
    /\ status[1] = "0"
    /\ emitted[1].static_urls
         = <<Chars("/s/Zed.HTML"), Chars("/s/index.html"), Chars("/s/style.css")>>

\* The classifier of the specification: the text from the last dot is,
\* letter case ignored, an allow-listed extension, and that dot is not the
\* first character.
AllowList ==
    {".html", ".htm", ".js", ".css", ".json", ".txt", ".svg", ".png", ".jpg",
     ".jpeg", ".gif", ".ico", ".wasm", ".woff", ".woff2"}

Accepted(name) ==
    LET dots == {i \in 1..Len(name) : name[i] = "."}
    IN /\ dots # {}
       /\ LET last == CHOOSE i \in dots : \A j \in dots : j <= i
          IN /\ last > 1
             /\ \E x \in AllowList :
                  ToLowerStr(SubSeq(name, last, Len(name))) = Chars(x)

\* The filenames of the table of run r.
TableNames(r) ==
    {SubSeq(emitted[r].static_urls[i], Len(url_prefix) + 1, Len(emitted[r].static_urls[i])) :
        i \in 1..Len(emitted[r].static_urls)}

\* C15: the filenames of the generated table are exactly the top-level
\* regular files of the input directory whose name the classifier accepts.
C15_AdmissionFilter ==
    \A r \in Runs :
        (cpc[r] = "emit" \/ status[r] = "0") =>
            /\ emitted[r].static_count = Len(emitted[r].static_urls)
            /\ Cardinality(TableNames(r)) = emitted[r].static_count
            /\ TableNames(r) =
                 {Chars(e.name) : e \in {f \in dir : f.top /\ f.kind = "reg"
                                                    /\ Accepted(Chars(f.name))}}

C15_Witness ==
    /\ status[1] = "0"
    /\ dir = {IndexFile, ImgDir, DeepFile, CssDir, FifoJs}
    /\ TableNames(1) = {Chars("index.html")}

\* The filename of entry i of the table of run r.
NameAt(r, i) ==
    SubSeq(emitted[r].static_urls[i], Len(url_prefix) + 1, Len(emitted[r].static_urls[i]))

\* Entry i of the table of run r is the url, header string, payload array
\* and size of one successfully read file.
OneReadFile(r, i) ==
    LET nm == NameAt(r, i)
        f == FileOf(nm)
    IN /\ nm \notin report[r]
       /\ f.readable
       /\ ValidatorOf(emitted[r].static_contentType[i].text) = hexhash(Chars(f.data))
       /\ emitted[r].static_content[i] = arrname(nm)
       /\ emitted[r].static_content_size[i] = arrname(nm)
       /\ \E k \in 1..Len(emitted[r].arrays) :
            /\ emitted[r].arrays[k].name = arrname(nm)
            /\ emitted[r].arrays[k].bytes = gzip(Chars(f.data))

\* C16: a run in which every compression succeeded exits 0 with a table
\* that has no entry for a file that could not be read: every index is
\* the url, header string, payload array and size of one read file.
C16_SkippedExcluded ==
    \A r \in Runs :
        (status[r] = "0" /\ gzfailed[r] = {}) =>
            /\ emitted[r].static_count = Len(names[r]) - Cardinality(report[r])
            /\ \A i \in 1..emitted[r].static_count : OneReadFile(r, i)

\* C17: a run in which a compression failed does not exit 0.
C17_CompressionFatal ==
    \A r \in Runs : (status[r] = "0") => gzfailed[r] = {}

\* C18: two runs over the same directory with the same url prefix that
\* both finish, with every compression succeeding, emit the same output.
C18_Deterministic ==
    \A q, r \in Runs :
        (status[q] = "0" /\ status[r] = "0" /\ gzfailed[q] = {} /\ gzfailed[r] = {})
            => emitted[q] = emitted[r]

GzipLine == Chars("Content-Encoding: gzip") \o CRLF

\* The header line of text that starts with name, <<>> if there is none.
LineOf(text, name) ==
    LET b == strstr(text, name, 1)
    IN IF b = 0 THEN <<>> ELSE SubSeq(text, b, strstr(text, CRLF, b) + 1)

HoldsIndex(h) ==
    /\ pc[h] \in {"L317", "done"}
    /\ served[h]
    /\ idx[h] >= 0

\* C21: the index static_find_path returned is used against the table it
\* was found in: it is below the count of the table serve_static_http
\* indexes, and the url at that index is the requested path.
C21_OneTable ==
    \A h \in Handlers :
        HoldsIndex(h) =>
            /\ idx[h] < TableAt[a[h]].count
            /\ (Splits(frm[h]) /\ PathOf(frm[h]) # classic_root) =>
                 TableAt[a[h]].urls[idx[h] + 1]
                    = Normalized(PathOf(frm[h]), static_root_alias)

\* The path without its query string.
WithoutQuery(path) ==
    LET q == strchr(path, "?", 1)
    IN IF q = 0 THEN path ELSE SubSeq(path, 1, q - 1)

\* C22: the index found for a path with a query string is the index
\* static_find_path finds for the path without it, also for the path /.
C22_QueryIgnored ==
    \A h \in Handlers :
        (pc[h] = "L317" /\ strchr(Parsed(h).path, "?", 1) # 0) =>
            idx[h] = FindInTable(TableAt[a[h]],
                                 LookupKey(WithoutQuery(Parsed(h).path), static_root_alias))

\* The reason phrase of each status code the responder sends.
ReasonOf(code) ==
    CASE code = 200 -> "OK"
      [] code = 304 -> "Not Modified"
      [] code = 400 -> "Bad Request"
      [] code = 404 -> "Not Found"
      [] code = 405 -> "Method Not Allowed"

StatusLine(hdr) == SubSeq(hdr, 1, strstr(hdr, CRLF, 1) - 1)

\* C25: the status line of every response carries the reason phrase of
\* its status code.
C25_ReasonPhrase ==
    \A h \in Handlers :
        \A i \in 1..Len(sent[h]) :
            (sent[h][i].hdr # <<>>) =>
                /\ sent[h][i].code \in {200, 304, 400, 404, 405}
                /\ StatusLine(sent[h][i].hdr)
                     = Chars("HTTP/1.1 ") \o DecStr(sent[h][i].code)
                         \o Chars(" ") \o Chars(ReasonOf(sent[h][i].code))

(***************************************************************************)
(* Claims about the payload identifiers                                    *)
(***************************************************************************)

\* C24: no two entries of an emitted table name the same payload array,
\* and the array an entry names holds the payload of the entry's own file.
C24_DistinctArrays ==
    \A r \in Runs :
        (status[r] = "0") =>
            \A i, j \in 1..emitted[r].static_count :
                /\ (i # j) => emitted[r].static_content[i] # emitted[r].static_content[j]
                /\ \A k \in ArraysOf(r, i) :
                      emitted[r].arrays[k].bytes = gzip(Chars(FileOf(names[r][i]).data))

(***************************************************************************)
(* dir2statics: the hash of a file and its hex encoding, lines 376-388     *)
(***************************************************************************)

SHA1HashSize == 20

hexEncodeLower == Chars("0123456789abcdef")

\* const char hexEncode[16], line 240.
hexEncode == Chars("0123456789ABCDEF")

\* SHA1Reset, SHA1Input, SHA1Result of lines 376-378 for the file contents
\* of the model: the 20 bytes of the digest.
SHA1Result(data) ==
    CASE data = Chars("password") ->
           <<91, 170, 97, 228, 201, 185, 63, 63, 6, 130,
             37, 11, 108, 248, 51, 27, 126, 230, 143, 216>>
      [] data = <<>> ->
           <<218, 57, 163, 238, 94, 107, 75, 13, 50, 85,
             191, 239, 149, 96, 24, 144, 175, 216, 7, 9>>
      [] data = Chars("c") ->
           <<132, 165, 22, 132, 27, 167, 122, 91, 70, 72,
             222, 44, 208, 223, 203, 48, 234, 70, 219, 180>>
      [] OTHER ->
           <<47, 212, 225, 198, 122, 45, 40, 252, 237, 132,
             158, 225, 187, 118, 231, 57, 27, 147, 235, 18>>

\* The contents of the files of the model.
HashedContents ==
    {Chars("password"), <<>>, Chars("c"),
     Chars("The quick brown fox jumps over the lazy dog")}

\* Digests beyond those of the model's files: every byte value in every
\* position, alone and between different neighbours.
Uniform(v) == [i \in 1..SHA1HashSize |-> v]
Ramp(v) == [i \in 1..SHA1HashSize |-> (v + 37 * (i - 1)) % 256]
Digests == {Uniform(v) : v \in 0..255} \cup {Ramp(v) : v \in 0..255}

\* What SHA1Input is given: a file of the model, or contents with a digest
\* of Digests.
HashInputs ==
    {[known |-> TRUE, data |-> d, digest |-> SHA1Result(d)] : d \in HashedContents}
      \cup {[known |-> FALSE, data |-> <<>>, digest |-> g] : g \in Digests}

\* What the 40 bytes hold when a file is hashed: the stack as main found
\* it, or the hex characters of the file before.
Leftovers == {Uniform(0) \o Uniform(0), Uniform(70) \o Uniform(70)}

\* The character a byte of a header string is, in the emitted C string.
CharOf(b) == IF b \in 32..126 THEN Ascii[b - 31] ELSE "nonprintable"

InitHash ==
    /\ ServerInit
    /\ dir = {}
    /\ url_prefix = <<>>
    /\ NotStarted
    /\ hashed \in HashInputs
    /\ hexhashAndHash \in Leftovers
    /\ hexOut = 0
    /\ decIn = 0
    /\ hpc = "L376"
    /\ validator = <<>>

\* Lines 376-380: the digest goes to CustomHeader.hash, hexOut points to
\* hexhash[0] and decIn to hash[0].
Sha1(f) ==
    /\ hpc = "L376"
    /\ hashed = f
    /\ hexhashAndHash' = SubSeq(hexhashAndHash, 1, SHA1HashSize) \o f.digest
    /\ hexOut' = 0
    /\ decIn' = SHA1HashSize
    /\ hpc' = "L382"
    /\ UNCHANGED <<vars, dir, url_prefix, cpc, todo, names, cHdr, ci, emitted,
                   report, gzfailed, status, resp, hashed, validator>>

\* Line 381: x < SHA1HashSize, where x is decIn - &CustomHeader.hash[0].
InLoop == decIn - SHA1HashSize < SHA1HashSize

\* Line 382: *(hexOut++) = hexEncode[*decIn >> 4].
HexHigh ==
    /\ hpc = "L382"
    /\ InLoop
    /\ hexhashAndHash' = [hexhashAndHash EXCEPT ![hexOut + 1] =
                             ByteOf(hexEncode[(hexhashAndHash[decIn + 1] \div 16) + 1])]
    /\ hexOut' = hexOut + 1
    /\ hpc' = "L383"
    /\ UNCHANGED <<vars, dir, url_prefix, cpc, todo, names, cHdr, ci, emitted,
                   report, gzfailed, status, resp, hashed, decIn, validator>>

\* Line 383: *(hexOut++) = hexEncode[*decIn & 0xf], then x++, decIn++.
HexLow ==
    /\ hpc = "L383"
    /\ hexhashAndHash' = [hexhashAndHash EXCEPT ![hexOut + 1] =
                             ByteOf(hexEncode[(hexhashAndHash[decIn + 1] % 16) + 1])]
    /\ hexOut' = hexOut + 1
    /\ decIn' = decIn + 1
    /\ hpc' = "L382"
    /\ UNCHANGED <<vars, dir, url_prefix, cpc, todo, names, cHdr, ci, emitted,
                   report, gzfailed, status, resp, hashed, validator>>

\* Line 388: memmove(&cHdr[i], &CustomHeader, sizeof(CustomHeader)); the
\* 40 bytes stand between Etag: \" and \" in the emitted string.
CopyHeader ==
    /\ hpc = "L382"
    /\ ~InLoop
    /\ validator' = [i \in 1..2 * SHA1HashSize |-> CharOf(hexhashAndHash[i])]
    /\ hpc' = "L388"
    /\ UNCHANGED <<vars, dir, url_prefix, cpc, todo, names, cHdr, ci, emitted,
                   report, gzfailed, status, resp, hashed, hexhashAndHash, hexOut, decIn>>

NextHash ==
    \/ \E f \in HashInputs : Sha1(f)
    \/ HexHigh
    \/ HexLow
    \/ CopyHeader

SpecHash == InitHash /\ [][NextHash]_<<vars, cvars>>

(***************************************************************************)
(* Claims about the validator                                              *)
(***************************************************************************)

UpperHexDigits ==
    <<"0", "1", "2", "3", "4", "5", "6", "7", "8", "9", "A", "B", "C", "D", "E", "F">>

\* The 40 upper-case hex characters of a 20-byte digest.
HexRendering(digest) ==
    [i \in 1..2 * Len(digest) |->
        LET b == digest[(i + 1) \div 2]
        IN UpperHexDigits[(IF i % 2 = 1 THEN b \div 16 ELSE b % 16) + 1]]

\* C23: the validator emitted for a file is the 40-character upper-case
\* hex rendering of the digest of the file's bytes, and the loop that
\* encodes in place finds each digest byte as SHA1Result stored it when it
\* reads the byte.
C23_HexInPlace ==
    /\ (hpc \in {"L382", "L383"} /\ InLoop) =>
          hexhashAndHash[decIn + 1] = hashed.digest[decIn - SHA1HashSize + 1]
    /\ (hpc = "L388") =>
          /\ Len(validator) = 40
          /\ validator = HexRendering(hashed.digest)
          /\ hashed.known => validator = hexhash(hashed.data)

C23_Witness ==
    /\ hpc = "L388"
    /\ hashed.known
    /\ hashed.data = Chars("password")
    /\ hexOut = 40
    /\ validator = EtagStyle

====
